---- MODULE Spec2Model ----
(***************************************************************************)
(* Model of the Traefik middleware k8s_secret_header.go: a single-entry,   *)
(* TTL-bounded cache (secretCache) in front of a Kubernetes secret fetch   *)
(* (k8sClient.getSecret), composed by SecretHeader.ServeHTTP.              *)
(*                                                                         *)
(* Strings that the code transforms are sequences: an encoded secret field *)
(* is a sequence of one-character strings, a decoded value (and a header   *)
(* value, and ValuePrefix) is a sequence of byte values.  Time is counted  *)
(* in seconds of the monotonic clock since the process started.            *)
(***************************************************************************)
EXTENDS Integers, Sequences, FiniteSets, TLC

\* ------------------------------------------------------------------ bounds
NumReqs == 2          \* requests served by the instance, concurrently or not
MaxClock == 2         \* the clock advances this many seconds at most
NumCallers == 3       \* callers of get and set in CacheSpec, one call each

Reqs == 1..NumReqs
Callers == 1..NumCallers
Procs == Reqs \cup Callers
NoReq == 0

\* ------------------------------------------------------------------- time
\* lastFetch of a cache that was never written is the zero time.Time, which
\* carries no monotonic reading; time.Since of it saturates at the largest
\* Duration.
ZeroTime == -1
MaxDuration == 1000000

Since(t, clock) == IF t = ZeroTime THEN MaxDuration ELSE clock - t

\* ----------------------------------------------------------------- base64
Alphabet ==
  << "A","B","C","D","E","F","G","H","I","J","K","L","M","N","O","P",
     "Q","R","S","T","U","V","W","X","Y","Z","a","b","c","d","e","f",
     "g","h","i","j","k","l","m","n","o","p","q","r","s","t","u","v",
     "w","x","y","z","0","1","2","3","4","5","6","7","8","9","+","/" >>

IsB64(c) == \E i \in 1..64 : Alphabet[i] = c

B64Index(c) == (CHOOSE i \in 1..64 : Alphabet[i] = c) - 1

DecodeErr == [err |-> TRUE, bytes |-> << >>]

\* One quantum of four characters; last says that no input follows it.
DecodeQuantum(q, last) ==
  LET n2 == B64Index(q[1]) * 64 + B64Index(q[2])
      n3 == n2 * 64 + B64Index(q[3])
      n4 == n3 * 64 + B64Index(q[4])
  IN  IF ~(IsB64(q[1]) /\ IsB64(q[2])) THEN DecodeErr
      ELSE IF IsB64(q[3]) /\ IsB64(q[4])
        THEN [err |-> FALSE,
              bytes |-> << n4 \div 65536, (n4 \div 256) % 256, n4 % 256 >>]
      ELSE IF IsB64(q[3]) /\ q[4] = "=" /\ last
        THEN [err |-> FALSE, bytes |-> << n3 \div 1024, (n3 \div 4) % 256 >>]
      ELSE IF q[3] = "=" /\ q[4] = "=" /\ last
        THEN [err |-> FALSE, bytes |-> << n2 \div 16 >>]
      ELSE DecodeErr

RECURSIVE DecodeString(_)
DecodeString(s) ==
  IF s = << >> THEN [err |-> FALSE, bytes |-> << >>]
  ELSE IF Len(s) < 4 THEN DecodeErr
  ELSE LET q == DecodeQuantum(SubSeq(s, 1, 4), Len(s) = 4)
           rest == DecodeString(SubSeq(s, 5, Len(s)))
       IN  IF q.err \/ rest.err THEN DecodeErr
           ELSE [err |-> FALSE, bytes |-> q.bytes \o rest.bytes]

\* The offset base64.CorruptInputError carries for an input DecodeString
\* rejects, as decodeQuantum finds it: s is the input from a quantum's start
\* on, base the offset of that start.  Input ending inside a quantum gives
\* the quantum's start; a character outside the alphabet, or padding in the
\* first two places, its own offset; a single "=" at the end the length of
\* the input, before another character its own offset; anything after the
\* padding the offset after the padding.
RECURSIVE CorruptInputAt(_, _)
CorruptInputAt(s, base) ==
  LET n == Len(s)
      stops == { j \in 1..4 : j > n \/ ~IsB64(s[j]) }
      k == CHOOSE j \in stops : \A i \in stops : j <= i
  IN  IF stops = {} THEN CorruptInputAt(SubSeq(s, 5, n), base + 4)
      ELSE IF k > n THEN base
      ELSE IF s[k] # "=" \/ k <= 2 THEN base + k - 1
      ELSE IF k = 3 /\ n = 3 THEN base + 3
      ELSE IF k = 3 /\ s[4] # "=" THEN base + 2
      ELSE base + 4

\* ----------------------------------------------------------- remote store
\* k8sSecret.Data: a mapping from field name to base64 text.  A response
\* without a data field leaves the map nil, which has no keys.
EncA == << "Y", "Q", "=", "=" >>          \* base64 of "a"
EncBC == << "Y", "m", "M", "=" >>         \* base64 of "bc"
EncBad == << "Y", "Q", "=" >>             \* padding cut short

NoData == [k \in {} |-> << >>]

\* A rotation of the secret: the field's value "a" is replaced by the empty
\* value.  Before it the secret has a second field that is not base64.
BeforeRotation ==
  [exists |-> TRUE,
   data |-> [k \in {"token", "other-key"} |-> IF k = "token" THEN EncA ELSE EncBad]]
AfterRotation == [exists |-> TRUE, data |-> [k \in {"token"} |-> << >>]]

\* The secret object held by the API server: absent, or present with data.
Stores ==
  { BeforeRotation,
    [exists |-> FALSE, data |-> NoData],
    [exists |-> TRUE, data |-> NoData],
    [exists |-> TRUE, data |-> [k \in {"token"} |-> EncBad]],
    [exists |-> TRUE, data |-> [k \in {"other-key"} |-> EncBC]] }

StatusOK == 200
StatusCreated == 201
StatusNotFound == 404
StatusInternalServerError == 500

\* The API server's own answer for the secret now in the store.
ServerAnswer(st) ==
  IF st.exists
    THEN [doErr |-> "", status |-> StatusOK, json |-> TRUE, data |-> st.data,
          ctx |-> FALSE]
    ELSE [doErr |-> "", status |-> StatusNotFound, json |-> TRUE,
          data |-> NoData, ctx |-> FALSE]

\* What can arrive at the client: the server's answer, or a fault on the way
\* (transport failure or the 30 s client timeout, a 2xx status other than
\* 200, a body that is not JSON).
Arrivals(st) ==
  { ServerAnswer(st),
    [doErr |-> "transport", status |-> 0, json |-> FALSE, data |-> NoData,
     ctx |-> FALSE],
    [doErr |-> "", status |-> StatusCreated, json |-> TRUE, data |-> st.data,
     ctx |-> FALSE],
    [doErr |-> "", status |-> StatusOK, json |-> FALSE, data |-> NoData,
     ctx |-> FALSE] }

\* (variant: the request is built with http.NewRequest, without the
\* context of the incoming request, so that the answer is delivered although
\* the context is done)
httpClientDo_NoContext(arrival, ctxDone) == [arrival EXCEPT !.ctx = ctxDone]

\* httpClient.Do on the request built with req.Context() (lines 131, 139):
\* when the context is cancelled or its deadline passes before the answer
\* is in, Do returns the context's error and no answer.  ctx records that
\* the context was done.
httpClientDo(arrival, ctxDone) ==
  IF ctxDone
    THEN [doErr |-> "canceled", status |-> 0, json |-> FALSE, data |-> NoData,
          ctx |-> TRUE]
    ELSE arrival

\* What httpClient.Do can come back with for the secret now in the store.
Answers(st) ==
  { httpClientDo(a, c) : a \in Arrivals(st), c \in BOOLEAN }

\* (variant: the status is not looked at, the body of any answer is decoded)
getSecret_NoStatusCheck(resp) ==
  IF resp.doErr # "" THEN [err |-> "execute", data |-> NoData]
  ELSE IF ~resp.json THEN [err |-> "body", data |-> NoData]
  ELSE [err |-> "", data |-> resp.data]

\* (variant: every 2xx status is taken as success)
getSecret_Any2xx(resp) ==
  IF resp.doErr # "" THEN [err |-> "execute", data |-> NoData]
  ELSE IF resp.status < 200 \/ resp.status > 299
    THEN [err |-> "status", data |-> NoData]
  ELSE IF ~resp.json THEN [err |-> "body", data |-> NoData]
  ELSE [err |-> "", data |-> resp.data]

\* k8sClient.getSecret from the return of httpClient.Do on (lines 140-155).
getSecret(resp) ==
  IF resp.doErr # "" THEN [err |-> "execute", data |-> NoData]
  ELSE IF resp.status # StatusOK THEN [err |-> "status", data |-> NoData]
  ELSE IF ~resp.json THEN [err |-> "body", data |-> NoData]
  ELSE [err |-> "", data |-> resp.data]

\* (variant: the error of DecodeString is dropped, what was decoded is used)
FetchOutcome_IgnoreDecodeErr(resp, key) ==
  LET res == getSecret(resp)
  IN  IF res.err # "" THEN [cause |-> res.err, value |-> << >>]
      ELSE IF key \notin DOMAIN res.data THEN [cause |-> "nokey", value |-> << >>]
      ELSE [cause |-> "", value |-> DecodeString(res.data[key]).bytes]

\* (variant: the field is read without the ok of the map lookup, so that a
\* missing key reads as the empty string)
FetchOutcome_NoKeyCheck(resp, key) ==
  LET res == getSecret(resp)
      enc == IF key \in DOMAIN res.data THEN res.data[key] ELSE << >>
  IN  IF res.err # "" THEN [cause |-> res.err, value |-> << >>]
      ELSE LET d == DecodeString(enc)
           IN  IF d.err THEN [cause |-> "base64", value |-> << >>]
               ELSE [cause |-> "", value |-> d.bytes]

\* (variant: every field of the secret is decoded, one bad field fails all)
FetchOutcome_DecodesAll(resp, key) ==
  LET res == getSecret(resp)
  IN  IF res.err # "" THEN [cause |-> res.err, value |-> << >>]
      ELSE IF key \notin DOMAIN res.data THEN [cause |-> "nokey", value |-> << >>]
      ELSE IF \E k \in DOMAIN res.data : DecodeString(res.data[k]).err
        THEN [cause |-> "base64", value |-> << >>]
      ELSE [cause |-> "", value |-> DecodeString(res.data[key]).bytes]

\* ServeHTTP between the return of getSecret and the call of cache.set:
\* the error check, the lookup of SecretKey and the base64 decoding.
FetchOutcome(resp, key) ==
  LET res == getSecret(resp)
  IN  IF res.err # "" THEN [cause |-> res.err, value |-> << >>]
      ELSE IF key \notin DOMAIN res.data THEN [cause |-> "nokey", value |-> << >>]
      ELSE LET d == DecodeString(res.data[key])
           IN  IF d.err THEN [cause |-> "base64", value |-> << >>]
               ELSE [cause |-> "", value |-> d.bytes]

\* ---------------------------------------------------------- configuration
\* Config as New leaves it: the three names non-empty, Namespace defaulted.
\* CacheTTL is in seconds.
Prefixes == { << >>, << 66 >> }
TTLs == {0, 1}
Configs ==
  [ SecretName : {"my-secret"}, SecretKey : {"token"},
    HeaderName : {"X-Auth-Token"}, ValuePrefix : Prefixes,
    Namespace : {"default"}, CacheTTL : TTLs ]

\* The values of HeaderName a request arrives with: the first request's
\* client sent one of its own, the others sent none.
ClientHeader(r) == IF r = 1 THEN << << 120 >> >> ELSE << >>

\* ------------------------------------------------------------------ state
VARIABLES
  config,    \* SecretHeader.config
  cache,     \* SecretHeader.cache: value, lastFetch, ttl; and, as history,
             \* the number of calls of set so far (sets), which of them wrote
             \* value (vBy) and lastFetch (tBy), and of the one that wrote
             \* lastFetch its argument (arg) and the clock when it did (at)
  mu,        \* secretCache.mu: the writer holding it, the readers holding it
  now,       \* the monotonic clock
  store,     \* the secret in the API server
  pc,        \* where each request's ServeHTTP stands
  found,     \* ServeHTTP's ok from cache.get
  val,       \* ServeHTTP's value (from cache.get, or decoded)
  obs,       \* what the request's get read and the clock when it read,
             \* kept until ServeHTTP acts on get's result
  setNo,     \* which call of set the request is in (0: none)
  got,       \* what httpClient.Do came back with for the request
  cause,     \* the failure ServeHTTP logs for the request ("" if none)
  hdr,       \* values of HeaderName on the request object
  calls,     \* remote calls issued for the request
  nexts,     \* invocations of the next handler for the request
  seen,      \* values of HeaderName the next handler was invoked with
  status,    \* status code of the response (0: none written)
  body,      \* body of the response written by ServeHTTP ("": none)
  sent,      \* the GET issued for the request
  raw,       \* the Config as it was passed to New
  env,       \* the pod's token file and CA bundle, KUBERNETES_SERVICE_HOST
             \* and KUBERNETES_SERVICE_PORT
  client,    \* SecretHeader.k8sClient: baseURL, token
  npc,       \* where New stands ("ok": it returned the handler, "failed":
             \* it returned an error)
  reads,     \* how often the token file and the CA bundle were read
  rot,       \* the rotation that is timed, if any, and the clock at it
  late,      \* the request began later than ttl after the timed rotation
  logged     \* the line ServeHTTP wrote to stderr for the request, kept
             \* until ServeHTTP returns (<< >>: none)

fixed == << config, raw, env, client, npc, reads, rot >>
locals == << found, val, obs, setNo, got, cause, late, logged >>
outputs == << hdr, calls, nexts, seen, status, body, sent >>
vars == << fixed, cache, mu, now, store, pc, locals, outputs >>

\* newK8sClient line 121: fmt.Sprintf("https://%s:%s", host, port)
BaseURL(host, port) == << "https://", host, ":", port >>

\* (variant: the token is sent bare, without the Bearer scheme)
NewRequest_BareToken(c, namespace, name) ==
  [ method |-> "GET",
    url |-> c.baseURL \o << "/api/v1/namespaces/", namespace, "/secrets/",
                            name >>,
    Authorization |-> << c.token >>,
    Accept |-> "application/json" ]

\* getSecret lines 129-137: the URL of the secret, the GET with the bearer
\* token and the Accept header
NewRequest(c, namespace, name) ==
  [ method |-> "GET",
    url |-> c.baseURL \o << "/api/v1/namespaces/", namespace, "/secrets/",
                            name >>,
    Authorization |-> << "Bearer ", c.token >>,
    Accept |-> "application/json" ]

NoRequest == [method |-> "", url |-> << >>, Authorization |-> << >>,
              Accept |-> ""]

\* The pod the tests stand for: service account token and CA bundle in
\* place, the API server's host and port in the environment.
PodEnv == [token |-> "test-token", ca |-> "pem", host |-> "10.0.0.1",
           port |-> "443"]

NoObs == [t |-> ZeroTime, at |-> 0, tBy |-> 0, vBy |-> 0, arg |-> << >>,
          setAt |-> 0]
NoAnswer == [doErr |-> "none", status |-> 0, json |-> FALSE, data |-> NoData,
             ctx |-> FALSE]

Init ==
  /\ config \in Configs
  /\ cache = [value |-> << >>, lastFetch |-> ZeroTime, ttl |-> config.CacheTTL,
              sets |-> 0, vBy |-> 0, tBy |-> 0, arg |-> << >>, at |-> 0]
  /\ mu = [w |-> NoReq, readers |-> {}]
  /\ now = 0
  /\ store \in Stores
  /\ pc = [r \in Procs |-> "idle"]
  /\ found = [r \in Procs |-> FALSE]
  /\ val = [r \in Procs |-> << >>]
  /\ obs = [r \in Procs |-> NoObs]
  /\ setNo = [r \in Procs |-> 0]
  /\ got = [r \in Procs |-> NoAnswer]
  /\ cause = [r \in Procs |-> ""]
  /\ hdr = [r \in Procs |-> IF r \in Reqs THEN ClientHeader(r) ELSE << >>]
  /\ calls = [r \in Procs |-> 0]
  /\ nexts = [r \in Procs |-> 0]
  /\ seen = [r \in Procs |-> << >>]
  /\ status = [r \in Procs |-> 0]
  /\ body = [r \in Procs |-> ""]
  /\ sent = [r \in Procs |-> NoRequest]
  /\ raw = config
  /\ env = PodEnv
  /\ client = [baseURL |-> BaseURL(env.host, env.port), token |-> env.token]
  /\ npc = "ok"
  /\ reads = [token |-> 1, ca |-> 1]
  /\ rot = [done |-> FALSE, at |-> 0]
  /\ late = [r \in Procs |-> FALSE]
  /\ logged = [r \in Procs |-> << >>]

\* ------------------------------------------------------------ secretCache
\* (variant: get takes no lock)
CanRLock_Always == TRUE

\* sync.RWMutex.RLock waits while a writer holds the lock.
CanRLock == mu.w = NoReq

\* (variant: set takes the read lock, which readers and writers share)
CanLock_IgnoreReaders == mu.w = NoReq

\* sync.RWMutex.Lock waits while a writer or a reader holds the lock.
CanLock == mu.w = NoReq /\ mu.readers = {}

\* (variant: >= for >, an entry aged exactly ttl counts as expired)
Expired_AtTtl(lastFetch, ttl, clock) == Since(lastFetch, clock) >= ttl

\* get's test, line 68: time.Since(c.lastFetch) > c.ttl
Expired(lastFetch, ttl, clock) == Since(lastFetch, clock) > ttl

\* (variant: req.Header.Add, the value is appended to what the client sent)
HeaderSet_Add(values, v) == Append(values, v)

\* http.Header.Set: the header's values become the one value given.
HeaderSet(values, v) == << v >>

\* (variant: the prefix is left out)
HeaderValue_NoPrefix(prefix, value) == value

\* lines 204 and 243: headerValue := s.config.ValuePrefix + value
HeaderValue(prefix, value) == prefix \o value

\* (variant: the status of the remote answer is passed on to the caller)
RejectStatus_Upstream(resp) ==
  IF resp.doErr = "" /\ resp.status # StatusOK
    THEN resp.status ELSE StatusInternalServerError

\* lines 215, 224, 233: http.Error(rw, "Internal Server Error", 500)
RejectStatus(resp) == StatusInternalServerError

\* (variant: the error is written to the caller, http.Error(rw, err.Error(),
\* 500))
RejectBody_Cause(failure) == failure

\* lines 215, 224, 233: the body http.Error is given
RejectBody(failure) == "Internal Server Error"

\* The line ServeHTTP writes to stderr when the fetch path fails (lines
\* 213, 222, 231).  getSecret's error is printed with %v: for a failed Do
\* the transport's error (line 141), for a status other than 200 the status
\* and the whole response body (lines 146-147), for a body that is not JSON
\* the decoder's error (line 152); the base64 error is CorruptInputError,
\* "illegal base64 data at input byte N".
LogLine(cfg, resp, failure) ==
  IF failure = "execute"
    THEN << "Failed to get secret", cfg.Namespace, cfg.SecretName,
            "failed to execute request", resp.doErr >>
  ELSE IF failure = "status"
    THEN << "Failed to get secret", cfg.Namespace, cfg.SecretName,
            "kubernetes API returned status", resp.status, resp.data >>
  ELSE IF failure = "body"
    THEN << "Failed to get secret", cfg.Namespace, cfg.SecretName,
            "failed to decode secret response" >>
  ELSE IF failure = "nokey"
    THEN << "Secret key not found in secret", cfg.SecretKey, cfg.Namespace,
            cfg.SecretName >>
  ELSE IF failure = "base64"
    THEN << "Failed to decode secret value",
            "illegal base64 data at input byte",
            CorruptInputAt(resp.data[cfg.SecretKey], 0) >>
  ELSE << >>

\* (variant: the value is read back from the cache after set)
ForwardedValue_FromCache(r) == cache.value

\* line 243 uses value, the local variable that was passed to set
ForwardedValue(r) == val[r]

\* ---------------------------------------------------------------- actions
\* ServeHTTP is called for a request; get: c.mu.RLock()
RLock(r) ==
  /\ pc[r] = "idle"
  /\ CanRLock
  /\ mu' = [mu EXCEPT !.readers = @ \cup {r}]
  /\ pc' = [pc EXCEPT ![r] = "check"]
  /\ late' = [late EXCEPT ![r] = rot.done /\ now > rot.at + cache.ttl]
  /\ UNCHANGED << fixed, cache, now, store, found, val, obs, setNo, got,
                  cause, logged, outputs >>

\* (variant: get returns on the expired entry without RUnlock)
GetCheck_NoRUnlockOnMiss(r) ==
  /\ pc[r] = "check"
  /\ LET miss == Expired(cache.lastFetch, cache.ttl, now)
     IN  /\ found' = [found EXCEPT ![r] = ~miss]
         /\ pc' = [pc EXCEPT ![r] = IF miss THEN "fetch" ELSE "read"]
         /\ mu' = mu
  /\ obs' = [obs EXCEPT ![r] = [t |-> cache.lastFetch, at |-> now,
                                tBy |-> cache.tBy, vBy |-> 0,
                                arg |-> cache.arg, setAt |-> cache.at]]
  /\ UNCHANGED << fixed, cache, now, store, val, setNo, got, cause, outputs,
                  late, logged >>

\* (variant: get reports an empty cached value as not found)
GetCheck_EmptyIsMiss(r) ==
  /\ pc[r] = "check"
  /\ LET miss == Expired(cache.lastFetch, cache.ttl, now) \/ cache.value = << >>
     IN  /\ found' = [found EXCEPT ![r] = ~miss]
         /\ pc' = [pc EXCEPT ![r] = IF miss THEN "fetch" ELSE "read"]
         /\ mu' = IF miss THEN [mu EXCEPT !.readers = @ \ {r}] ELSE mu
  /\ obs' = [obs EXCEPT ![r] = [t |-> cache.lastFetch, at |-> now,
                                tBy |-> cache.tBy, vBy |-> 0,
                                arg |-> cache.arg, setAt |-> cache.at]]
  /\ UNCHANGED << fixed, cache, now, store, val, setNo, got, cause, outputs,
                  late, logged >>

\* get: the test of line 68 reads c.lastFetch and the clock; when it finds
\* the entry expired get returns "", false and the deferred RUnlock runs
GetCheck(r) ==
  /\ pc[r] = "check"
  /\ LET miss == Expired(cache.lastFetch, cache.ttl, now)
     IN  /\ found' = [found EXCEPT ![r] = ~miss]
         /\ pc' = [pc EXCEPT ![r] = IF miss THEN "fetch" ELSE "read"]
         /\ mu' = IF miss THEN [mu EXCEPT !.readers = @ \ {r}] ELSE mu
  /\ obs' = [obs EXCEPT ![r] = [t |-> cache.lastFetch, at |-> now,
                                tBy |-> cache.tBy, vBy |-> 0,
                                arg |-> cache.arg, setAt |-> cache.at]]
  /\ UNCHANGED << fixed, cache, now, store, val, setNo, got, cause, outputs,
                  late, logged >>

\* (variant: a hit renews the entry, get stamps lastFetch)
GetRead_Renews(r) ==
  /\ pc[r] = "read"
  /\ val' = [val EXCEPT ![r] = cache.value]
  /\ obs' = [obs EXCEPT ![r].vBy = cache.vBy]
  /\ mu' = [mu EXCEPT !.readers = @ \ {r}]
  /\ cache' = [cache EXCEPT !.lastFetch = now]
  /\ pc' = [pc EXCEPT ![r] = "hit"]
  /\ UNCHANGED << fixed, now, store, found, setNo, got, cause, outputs,
                  late, logged >>

\* get: return c.value, true (line 71) reads c.value; the deferred RUnlock
GetRead(r) ==
  /\ pc[r] = "read"
  /\ val' = [val EXCEPT ![r] = cache.value]
  /\ obs' = [obs EXCEPT ![r].vBy = cache.vBy]
  /\ mu' = [mu EXCEPT !.readers = @ \ {r}]
  /\ pc' = [pc EXCEPT ![r] = "hit"]
  /\ UNCHANGED << fixed, cache, now, store, found, setNo, got, cause, outputs,
                  late, logged >>

\* ServeHTTP lines 204-206: cache hit, set the header and call next
HitForward(r) ==
  /\ pc[r] = "hit"
  /\ LET h == HeaderSet(hdr[r], HeaderValue(config.ValuePrefix, val[r]))
     IN  /\ hdr' = [hdr EXCEPT ![r] = h]
         /\ seen' = [seen EXCEPT ![r] = h]
  /\ nexts' = [nexts EXCEPT ![r] = @ + 1]
  /\ status' = [status EXCEPT ![r] = StatusOK]
  /\ obs' = [obs EXCEPT ![r] = NoObs]
  /\ pc' = [pc EXCEPT ![r] = "return"]
  /\ UNCHANGED << fixed, cache, mu, now, store, found, val, setNo, got, cause,
                  calls, late, logged, body, sent >>

\* (variant: single flight, a request that missed waits while the fetch of
\* another request is in flight)
GetSecretSend_SingleFlight(r) ==
  /\ pc[r] = "fetch"
  /\ \A o \in Reqs \ {r} : pc[o] # "inflight"
  /\ calls' = [calls EXCEPT ![r] = @ + 1]
  /\ sent' = [sent EXCEPT ![r] = NewRequest(client, config.Namespace,
                                            config.SecretName)]
  /\ obs' = [obs EXCEPT ![r] = NoObs]
  /\ pc' = [pc EXCEPT ![r] = "inflight"]
  /\ UNCHANGED << fixed, cache, mu, now, store, found, val, setNo, got, cause,
                  hdr, nexts, seen, status, late, logged, body >>

\* ServeHTTP line 211, getSecret up to httpClient.Do: the GET is sent
GetSecretSend(r) ==
  /\ pc[r] = "fetch"
  /\ calls' = [calls EXCEPT ![r] = @ + 1]
  /\ sent' = [sent EXCEPT ![r] = NewRequest(client, config.Namespace,
                                            config.SecretName)]
  /\ obs' = [obs EXCEPT ![r] = NoObs]
  /\ pc' = [pc EXCEPT ![r] = "inflight"]
  /\ UNCHANGED << fixed, cache, mu, now, store, found, val, setNo, got, cause,
                  hdr, nexts, seen, status, late, logged, body >>

\* (variant: a failure is cached, as the empty value, for the ttl)
FetchFail_Cached(r) ==
  /\ pc[r] = "inflight"
  /\ \E resp \in Answers(store) :
       LET o == FetchOutcome(resp, config.SecretKey)
       IN  /\ o.cause # ""
           /\ got' = [got EXCEPT ![r] = resp]
           /\ cause' = [cause EXCEPT ![r] = o.cause]
           /\ status' = [status EXCEPT ![r] = RejectStatus(resp)]
           /\ body' = [body EXCEPT ![r] = RejectBody(o.cause)]
           /\ logged' = [logged EXCEPT
                          ![r] = LogLine(config, resp, o.cause)]
  /\ cache' = [cache EXCEPT !.value = << >>, !.lastFetch = now]
  /\ pc' = [pc EXCEPT ![r] = "return"]
  /\ UNCHANGED << fixed, mu, now, store, found, val, obs, setNo, late, hdr,
                  calls, nexts, seen, sent >>

\* (variant: a failed fetch is tried again)
FetchFail_Retries(r) ==
  /\ pc[r] = "inflight"
  /\ \E resp \in Answers(store) :
       FetchOutcome(resp, config.SecretKey).cause # ""
  /\ pc' = [pc EXCEPT ![r] = "fetch"]
  /\ UNCHANGED << fixed, cache, mu, now, store, locals, outputs >>

\* (variant: no return after http.Error, so that next is called as well)
FetchFail_FallsThrough(r) ==
  /\ pc[r] = "inflight"
  /\ \E resp \in Answers(store) :
       LET o == FetchOutcome(resp, config.SecretKey)
       IN  /\ o.cause # ""
           /\ got' = [got EXCEPT ![r] = resp]
           /\ cause' = [cause EXCEPT ![r] = o.cause]
           /\ status' = [status EXCEPT ![r] = RejectStatus(resp)]
           /\ body' = [body EXCEPT ![r] = RejectBody(o.cause)]
           /\ logged' = [logged EXCEPT
                          ![r] = LogLine(config, resp, o.cause)]
  /\ nexts' = [nexts EXCEPT ![r] = @ + 1]
  /\ seen' = [seen EXCEPT ![r] = hdr[r]]
  /\ pc' = [pc EXCEPT ![r] = "return"]
  /\ UNCHANGED << fixed, cache, mu, now, store, found, val, obs, setNo, hdr,
                  calls, late, sent >>

\* (variant: a failure drops the cached entry)
FetchFail_ClearsEntry(r) ==
  /\ pc[r] = "inflight"
  /\ \E resp \in Answers(store) :
       LET o == FetchOutcome(resp, config.SecretKey)
       IN  /\ o.cause # ""
           /\ got' = [got EXCEPT ![r] = resp]
           /\ cause' = [cause EXCEPT ![r] = o.cause]
           /\ status' = [status EXCEPT ![r] = RejectStatus(resp)]
           /\ body' = [body EXCEPT ![r] = RejectBody(o.cause)]
           /\ logged' = [logged EXCEPT
                          ![r] = LogLine(config, resp, o.cause)]
  /\ cache' = [cache EXCEPT !.value = << >>, !.lastFetch = ZeroTime]
  /\ pc' = [pc EXCEPT ![r] = "return"]
  /\ UNCHANGED << fixed, mu, now, store, found, val, obs, setNo, late, hdr,
                  calls, nexts, seen, sent >>

\* httpClient.Do returns and the fetch path fails (lines 212-216, 221-225,
\* 231-234): the cause is logged and http.Error answers 500
FetchFail(r) ==
  /\ pc[r] = "inflight"
  /\ \E resp \in Answers(store) :
       LET o == FetchOutcome(resp, config.SecretKey)
       IN  /\ o.cause # ""
           /\ got' = [got EXCEPT ![r] = resp]
           /\ cause' = [cause EXCEPT ![r] = o.cause]
           /\ status' = [status EXCEPT ![r] = RejectStatus(resp)]
           /\ body' = [body EXCEPT ![r] = RejectBody(o.cause)]
           /\ logged' = [logged EXCEPT
                          ![r] = LogLine(config, resp, o.cause)]
  /\ pc' = [pc EXCEPT ![r] = "return"]
  /\ UNCHANGED << fixed, cache, mu, now, store, found, val, obs, setNo, hdr,
                  calls, nexts, seen, late, sent >>

\* httpClient.Do returns and fetch, lookup and decoding succeed (line 237)
FetchOK(r) ==
  /\ pc[r] = "inflight"
  /\ \E resp \in Answers(store) :
       LET o == FetchOutcome(resp, config.SecretKey)
       IN  /\ o.cause = ""
           /\ got' = [got EXCEPT ![r] = resp]
           /\ val' = [val EXCEPT ![r] = o.value]
  /\ pc' = [pc EXCEPT ![r] = "lock"]
  /\ UNCHANGED << fixed, cache, mu, now, store, found, obs, setNo, cause,
                  outputs, late, logged >>

\* set: c.mu.Lock()
Lock(r) ==
  /\ pc[r] = "lock"
  /\ CanLock
  /\ mu' = [mu EXCEPT !.w = r]
  /\ cache' = [cache EXCEPT !.sets = @ + 1]
  /\ setNo' = [setNo EXCEPT ![r] = cache.sets + 1]
  /\ pc' = [pc EXCEPT ![r] = "wvalue"]
  /\ UNCHANGED << fixed, now, store, found, val, obs, got, cause, outputs,
                  late, logged >>

\* (variant: set keeps a value that is already cached)
SetValue_FirstWins(r) ==
  /\ pc[r] = "wvalue"
  /\ cache' = [cache EXCEPT !.value = IF cache.vBy = 0 THEN val[r] ELSE @,
                            !.vBy = setNo[r]]
  /\ pc' = [pc EXCEPT ![r] = "wtime"]
  /\ UNCHANGED << fixed, mu, now, store, locals, outputs >>

\* set line 78: c.value = value
SetValue(r) ==
  /\ pc[r] = "wvalue"
  /\ cache' = [cache EXCEPT !.value = val[r], !.vBy = setNo[r]]
  /\ pc' = [pc EXCEPT ![r] = "wtime"]
  /\ UNCHANGED << fixed, mu, now, store, locals, outputs >>

\* (variant: set returns without Unlock)
SetTime_NoUnlock(r) ==
  /\ pc[r] = "wtime"
  /\ cache' = [cache EXCEPT !.lastFetch = now, !.tBy = setNo[r],
                            !.arg = val[r], !.at = now]
  /\ mu' = mu
  /\ setNo' = [setNo EXCEPT ![r] = 0]
  /\ pc' = [pc EXCEPT ![r] = "forward"]
  /\ UNCHANGED << fixed, now, store, found, val, obs, got, cause, outputs,
                  late, logged >>

\* (variant: set stores the value and leaves lastFetch as it was)
SetTime_NoStamp(r) ==
  /\ pc[r] = "wtime"
  /\ cache' = [cache EXCEPT !.tBy = setNo[r], !.arg = val[r], !.at = now]
  /\ mu' = [mu EXCEPT !.w = NoReq]
  /\ setNo' = [setNo EXCEPT ![r] = 0]
  /\ pc' = [pc EXCEPT ![r] = "forward"]
  /\ UNCHANGED << fixed, now, store, found, val, obs, got, cause, outputs,
                  late, logged >>

\* (variant: lastFetch is stamped by the first set only)
SetTime_FirstOnly(r) ==
  /\ pc[r] = "wtime"
  /\ cache' = [cache EXCEPT
                 !.lastFetch = IF @ = ZeroTime THEN now ELSE @,
                 !.tBy = setNo[r], !.arg = val[r], !.at = now]
  /\ mu' = [mu EXCEPT !.w = NoReq]
  /\ setNo' = [setNo EXCEPT ![r] = 0]
  /\ pc' = [pc EXCEPT ![r] = "forward"]
  /\ UNCHANGED << fixed, now, store, found, val, obs, got, cause, outputs,
                  late, logged >>

\* (variant: the clock is read before set waits for the lock, so that the
\* reading stored may be of any earlier moment)
SetTime_EarlierReading(r) ==
  /\ pc[r] = "wtime"
  /\ \E t \in 0..now :
       cache' = [cache EXCEPT !.lastFetch = t, !.tBy = setNo[r],
                              !.arg = val[r], !.at = t]
  /\ mu' = [mu EXCEPT !.w = NoReq]
  /\ setNo' = [setNo EXCEPT ![r] = 0]
  /\ pc' = [pc EXCEPT ![r] = "forward"]
  /\ UNCHANGED << fixed, now, store, found, val, obs, got, cause, outputs,
                  late, logged >>

\* set line 79: c.lastFetch = time.Now(); the deferred c.mu.Unlock()
SetTime(r) ==
  /\ pc[r] = "wtime"
  /\ cache' = [cache EXCEPT !.lastFetch = now, !.tBy = setNo[r],
                            !.arg = val[r], !.at = now]
  /\ mu' = [mu EXCEPT !.w = NoReq]
  /\ setNo' = [setNo EXCEPT ![r] = 0]
  /\ pc' = [pc EXCEPT ![r] = "forward"]
  /\ UNCHANGED << fixed, now, store, found, val, obs, got, cause, outputs,
                  late, logged >>

\* ServeHTTP lines 243-246: set the header from the local value, call next
MissForward(r) ==
  /\ pc[r] = "forward"
  /\ LET h == HeaderSet(hdr[r], HeaderValue(config.ValuePrefix, ForwardedValue(r)))
     IN  /\ hdr' = [hdr EXCEPT ![r] = h]
         /\ seen' = [seen EXCEPT ![r] = h]
  /\ nexts' = [nexts EXCEPT ![r] = @ + 1]
  /\ status' = [status EXCEPT ![r] = StatusOK]
  /\ pc' = [pc EXCEPT ![r] = "return"]
  /\ UNCHANGED << fixed, cache, mu, now, store, locals, calls, body, sent >>

\* ServeHTTP returns: its local variables are gone
Return(r) ==
  /\ pc[r] = "return"
  /\ found' = [found EXCEPT ![r] = FALSE]
  /\ val' = [val EXCEPT ![r] = << >>]
  /\ got' = [got EXCEPT ![r] = NoAnswer]
  /\ cause' = [cause EXCEPT ![r] = ""]
  /\ late' = [late EXCEPT ![r] = FALSE]
  /\ logged' = [logged EXCEPT ![r] = << >>]
  /\ pc' = [pc EXCEPT ![r] = "done"]
  /\ UNCHANGED << fixed, cache, mu, now, store, obs, setNo, outputs >>

\* A second of the monotonic clock passes.
Tick ==
  /\ now < MaxClock
  /\ now' = now + 1
  /\ UNCHANGED << fixed, cache, mu, store, pc, locals, outputs >>

\* The secret is rotated in the API server.
Rotate ==
  /\ store = BeforeRotation
  /\ store' = AfterRotation
  /\ UNCHANGED << fixed, cache, mu, now, pc, locals, outputs >>

Next ==
  \/ \E r \in Reqs : RLock(r)
  \/ \E r \in Reqs : GetCheck(r)
  \/ \E r \in Reqs : GetRead(r)
  \/ \E r \in Reqs : HitForward(r)
  \/ \E r \in Reqs : GetSecretSend(r)
  \/ \E r \in Reqs : FetchFail(r)
  \/ \E r \in Reqs : FetchOK(r)
  \/ \E r \in Reqs : Lock(r)
  \/ \E r \in Reqs : SetValue(r)
  \/ \E r \in Reqs : SetTime(r)
  \/ \E r \in Reqs : MissForward(r)
  \/ \E r \in Reqs : Return(r)
  \/ Tick
  \/ Rotate

Spec == Init /\ [][Next]_vars

\* ---------------------------------------------------------------- fairness
\* A request that is inside ServeHTTP goes on: the Go scheduler runs every
\* goroutine that can run, a goroutine waiting for the RWMutex gets it once
\* it stays free, and httpClient.Do returns (with the answer, an error, on
\* cancellation, or at the client's Timeout of 30 s, lines 110-118).
Continue(r) ==
  \/ GetCheck(r)
  \/ GetRead(r)
  \/ HitForward(r)
  \/ GetSecretSend(r)
  \/ FetchFail(r)
  \/ FetchOK(r)
  \/ Lock(r)
  \/ SetValue(r)
  \/ SetTime(r)
  \/ MissForward(r)
  \/ Return(r)

\* The requests of a handler whose secret is in place and may be rotated.
\* The clock stands still: no step of a request waits for it, and get finds
\* the entry expired (never written) and not expired (just written) as it is.
FairInit ==
  /\ Init
  /\ store = BeforeRotation
  /\ config.ValuePrefix = << >>

FairNext ==
  \/ \E r \in Reqs : RLock(r)
  \/ \E r \in Reqs : Continue(r)
  \/ Rotate

FairSpec ==
  FairInit /\ [][FairNext]_vars /\ \A r \in Reqs : WF_vars(Continue(r))

\* ------------------------------------------------------------- sequential
\* The handler under requests that do not overlap, as the tests of
\* TestServeHTTPWithCache and TestServeHTTPCacheExpiration send them:
\* ServeHTTP is called for a request when no other request is inside it.
SeqStart(r) ==
  /\ \A o \in Reqs \ {r} : pc[o] \in {"idle", "done"}
  /\ RLock(r)

SeqNext ==
  \/ \E r \in Reqs : SeqStart(r)
  \/ \E r \in Reqs : GetCheck(r)
  \/ \E r \in Reqs : GetRead(r)
  \/ \E r \in Reqs : HitForward(r)
  \/ \E r \in Reqs : GetSecretSend(r)
  \/ \E r \in Reqs : FetchFail(r)
  \/ \E r \in Reqs : FetchOK(r)
  \/ \E r \in Reqs : Lock(r)
  \/ \E r \in Reqs : SetValue(r)
  \/ \E r \in Reqs : SetTime(r)
  \/ \E r \in Reqs : MissForward(r)
  \/ \E r \in Reqs : Return(r)
  \/ Tick
  \/ Rotate

SeqSpec == Init /\ [][SeqNext]_vars

\* ----------------------------------------------------------- construction
\* New, from the Config and the pod it is called in, to the handler and its
\* first requests.
CreateConfig ==
  [ SecretName |-> "", SecretKey |-> "", HeaderName |-> "",
    ValuePrefix |-> << >>, Namespace |-> "", CacheTTL |-> 300 ]

\* The configurations New is called with: CreateConfig's, with any of the
\* names, the namespace and the TTL overridden.
RawConfigs ==
  { [CreateConfig EXCEPT !.SecretName = n, !.SecretKey = k, !.HeaderName = h,
                         !.Namespace = ns, !.CacheTTL = t] :
      n \in {"", "my-secret"}, k \in {"", "token"},
      h \in {"", "X-Auth-Token"}, ns \in {"", "prod"},
      t \in {CreateConfig.CacheTTL, 0, -1} }

\* The pods New is called in: the token file and the CA bundle there or not
\* (os.ReadFile fails), the bundle PEM or not, the two environment variables
\* set or empty.
NoFile == "(no file)"
Envs ==
  [ token : {NoFile, "test-token"}, ca : {NoFile, "garbage", "pem"},
    host : {"", "10.0.0.1"}, port : {"", "443"} ]

NoClient == [baseURL |-> << >>, token |-> ""]

NewInit ==
  /\ raw \in RawConfigs
  /\ config = raw
  /\ env \in Envs
  /\ client = NoClient
  /\ npc = "validate"
  /\ reads = [token |-> 0, ca |-> 0]
  /\ rot = [done |-> FALSE, at |-> 0]
  /\ cache = [value |-> << >>, lastFetch |-> ZeroTime, ttl |-> 0,
              sets |-> 0, vBy |-> 0, tBy |-> 0, arg |-> << >>, at |-> 0]
  /\ mu = [w |-> NoReq, readers |-> {}]
  /\ now = 0
  /\ store = BeforeRotation
  /\ pc = [r \in Procs |-> "idle"]
  /\ found = [r \in Procs |-> FALSE]
  /\ val = [r \in Procs |-> << >>]
  /\ obs = [r \in Procs |-> NoObs]
  /\ setNo = [r \in Procs |-> 0]
  /\ got = [r \in Procs |-> NoAnswer]
  /\ cause = [r \in Procs |-> ""]
  /\ late = [r \in Procs |-> FALSE]
  /\ logged = [r \in Procs |-> << >>]
  /\ hdr = [r \in Procs |-> IF r \in Reqs THEN ClientHeader(r) ELSE << >>]
  /\ calls = [r \in Procs |-> 0]
  /\ nexts = [r \in Procs |-> 0]
  /\ seen = [r \in Procs |-> << >>]
  /\ status = [r \in Procs |-> 0]
  /\ body = [r \in Procs |-> ""]
  /\ sent = [r \in Procs |-> NoRequest]

serving == << cache, mu, now, store, pc, locals, outputs >>

\* (variant: the check of headerName is left out)
ConfigInvalid_NoHeaderName(cfg) == cfg.SecretName = "" \/ cfg.SecretKey = ""

\* New lines 160-168: a required field is empty
ConfigInvalid(cfg) ==
  cfg.SecretName = "" \/ cfg.SecretKey = "" \/ cfg.HeaderName = ""

\* (variant: the namespace is used as configured)
NamespaceOrDefault_AsGiven(ns) == ns

\* New lines 171-173: config.Namespace = "default" when it is empty
NamespaceOrDefault(ns) == IF ns = "" THEN "default" ELSE ns

\* (variant: && for ||, only both variables empty is an error)
EnvMissing_Both(host, port) == host = "" /\ port = ""

\* newK8sClient line 105: host == "" || port == ""
EnvMissing(host, port) == host = "" \/ port = ""

\* New lines 160-168: the three checks, before anything else
NewValidate ==
  /\ npc = "validate"
  /\ npc' = IF ConfigInvalid(config) THEN "failed" ELSE "namespace"
  /\ UNCHANGED << config, raw, env, client, reads, rot, serving >>

\* New lines 171-173
NewNamespace ==
  /\ npc = "namespace"
  /\ config' = [config EXCEPT !.Namespace = NamespaceOrDefault(@)]
  /\ npc' = "token"
  /\ UNCHANGED << raw, env, client, reads, rot, serving >>

\* newK8sClient lines 85-88: os.ReadFile of the token file
ReadToken ==
  /\ npc = "token"
  /\ reads' = [reads EXCEPT !.token = @ + 1]
  /\ IF env.token = NoFile
       THEN npc' = "failed" /\ client' = client
       ELSE npc' = "ca" /\ client' = [client EXCEPT !.token = env.token]
  /\ UNCHANGED << config, raw, env, rot, serving >>

\* newK8sClient lines 91-100: os.ReadFile of ca.crt, AppendCertsFromPEM
ReadCA ==
  /\ npc = "ca"
  /\ reads' = [reads EXCEPT !.ca = @ + 1]
  /\ IF env.ca = "pem"
       THEN npc' = "env" /\ client' = client
       ELSE npc' = "failed" /\ client' = NoClient
  /\ UNCHANGED << config, raw, env, rot, serving >>

\* newK8sClient lines 103-124: the environment variables, the k8sClient
ReadEnv ==
  /\ npc = "env"
  /\ IF EnvMissing(env.host, env.port)
       THEN npc' = "failed" /\ client' = NoClient
       ELSE /\ npc' = "build"
            /\ client' = [client EXCEPT
                             !.baseURL = BaseURL(env.host, env.port)]
  /\ UNCHANGED << config, raw, env, reads, rot, serving >>

\* (variant: the cache is built with lastFetch: time.Now())
NewBuild_StampsNow ==
  /\ npc = "build"
  /\ cache' = [cache EXCEPT !.ttl = config.CacheTTL, !.lastFetch = now]
  /\ npc' = "ok"
  /\ UNCHANGED << config, raw, env, client, reads, rot, mu, now, store, pc,
                  locals, outputs >>

\* New lines 181-198: the cache with ttl = CacheTTL seconds, the handler
NewBuild ==
  /\ npc = "build"
  /\ cache' = [cache EXCEPT !.ttl = config.CacheTTL]
  /\ npc' = "ok"
  /\ UNCHANGED << config, raw, env, client, reads, rot, mu, now, store, pc,
                  locals, outputs >>

\* The handler New returned serves requests, here one after the other.
NewServes ==
  /\ npc = "ok"
  /\ SeqNext

NewNext ==
  \/ NewValidate
  \/ NewNamespace
  \/ ReadToken
  \/ ReadCA
  \/ ReadEnv
  \/ NewBuild
  \/ NewServes

NewSpec == NewInit /\ [][NewNext]_vars

\* --------------------------------------------------------------- rotation
\* The handler while the secret is rotated once, with the clock at the
\* rotation kept, for a ttl above zero.
RotateTimed ==
  /\ store = BeforeRotation
  /\ store' = AfterRotation
  /\ rot' = [done |-> TRUE, at |-> now]
  /\ UNCHANGED << config, raw, env, client, npc, reads, cache, mu, now, pc,
                  locals, outputs >>

RotInit ==
  /\ Init
  /\ store = BeforeRotation
  /\ config.CacheTTL > 0

RotNext ==
  \/ \E r \in Reqs : RLock(r)
  \/ \E r \in Reqs : GetCheck(r)
  \/ \E r \in Reqs : GetRead(r)
  \/ \E r \in Reqs : HitForward(r)
  \/ \E r \in Reqs : GetSecretSend(r)
  \/ \E r \in Reqs : FetchFail(r)
  \/ \E r \in Reqs : FetchOK(r)
  \/ \E r \in Reqs : Lock(r)
  \/ \E r \in Reqs : SetValue(r)
  \/ \E r \in Reqs : SetTime(r)
  \/ \E r \in Reqs : MissForward(r)
  \/ \E r \in Reqs : Return(r)
  \/ Tick
  \/ RotateTimed

RotSpec == RotInit /\ [][RotNext]_vars

\* ---------------------------------------------------------------- callers
\* The cache under callers that call get and set in any order and with any
\* argument, as the contract of secretCache allows.  The operations are the
\* actions above; a caller makes one call: get (RLock on) or set.
SetArgs == { << 97 >>, << 98 >> }

\* the caller calls set(v)
CallerSet(r) ==
  /\ pc[r] = "idle"
  /\ \E v \in SetArgs : val' = [val EXCEPT ![r] = v]
  /\ pc' = [pc EXCEPT ![r] = "lock"]
  /\ UNCHANGED << fixed, cache, mu, now, store, found, obs, setNo, got, cause,
                  outputs, late, logged >>

\* get or set has returned to the caller
CallerReturns(r) ==
  /\ pc[r] \in {"hit", "fetch", "forward"}
  /\ found' = [found EXCEPT ![r] = FALSE]
  /\ val' = [val EXCEPT ![r] = << >>]
  /\ obs' = [obs EXCEPT ![r] = NoObs]
  /\ pc' = [pc EXCEPT ![r] = "done"]
  /\ UNCHANGED << fixed, cache, mu, now, store, setNo, got, cause, outputs,
                  late, logged >>

CacheInit ==
  /\ Init
  /\ config.ValuePrefix = << >>
  /\ store = BeforeRotation

CacheNext ==
  \/ \E r \in Callers : RLock(r)
  \/ \E r \in Callers : GetCheck(r)
  \/ \E r \in Callers : GetRead(r)
  \/ \E r \in Callers : CallerSet(r)
  \/ \E r \in Callers : Lock(r)
  \/ \E r \in Callers : SetValue(r)
  \/ \E r \in Callers : SetTime(r)
  \/ \E r \in Callers : CallerReturns(r)
  \/ Tick

CacheSpec == CacheInit /\ [][CacheNext]_vars

\* ----------------------------------------------------------------- claims
\* The secret field as this request's fetch returned it, decoded.
OwnDecoded(r) == DecodeString(got[r].data[config.SecretKey])

\* The fetch of request r came back with a usable secret field.
FetchSucceeded(r) ==
  /\ got[r].doErr = "" /\ got[r].status = 200 /\ got[r].json
  /\ config.SecretKey \in DOMAIN got[r].data
  /\ ~OwnDecoded(r).err

\* C1: a request whose get reported found makes no remote call, and is
\* forwarded to next with the header set to ValuePrefix + the value get
\* returned, which is the value the cache held.
C1_CacheHitNoRemoteCall ==
  \A r \in Reqs :
    found[r] =>
      /\ calls[r] = 0
      /\ pc[r] = "hit" => val[r] = obs[r].arg
      /\ pc[r] = "return" =>
           /\ nexts[r] = 1
           /\ seen[r] = << config.ValuePrefix \o val[r] >>
           /\ hdr[r] = seen[r]

C1_Witness ==
  \E r \in Reqs :
    /\ pc[r] = "return" /\ found[r] /\ calls[r] = 0
    /\ seen[r] = << << 66, 97 >> >>

\* C2: when the remote call fails in transport or is answered with a failure
\* status, the request is answered 500 and next is not invoked for it.
C2_RemoteFailureRejects ==
  \A r \in Reqs :
    /\ ( /\ pc[r] = "return"
         /\ \/ got[r].doErr = "transport"
            \/ got[r].doErr = "" /\ got[r].status >= 400 )
       => status[r] = 500 /\ nexts[r] = 0 /\ seen[r] = << >>
    /\ status[r] = 500 => nexts[r] = 0

\* the API server answered 404 and the request was answered 500
C2_Witness ==
  \E r \in Reqs :
    /\ pc[r] = "return" /\ got[r].doErr = "" /\ got[r].status = 404
    /\ status[r] = 500 /\ nexts[r] = 0

\* C3: when the fetched secret lacks the configured key, the request is
\* answered 500 and next is not invoked for it.
C3_MissingKeyRejects ==
  \A r \in Reqs :
    ( /\ pc[r] = "return"
      /\ got[r].doErr = "" /\ got[r].status = 200 /\ got[r].json
      /\ config.SecretKey \notin DOMAIN got[r].data )
    => status[r] = 500 /\ nexts[r] = 0 /\ seen[r] = << >>

C3_Witness ==
  \E r \in Reqs :
    /\ pc[r] = "return" /\ status[r] = 500
    /\ got[r].status = 200 /\ got[r].json
    /\ DOMAIN got[r].data = {"other-key"}

\* C4: after a miss with a successful fetch and decode, the request passes
\* its decoded value to set and is forwarded with the header equal to
\* ValuePrefix + that same value, whatever the cache holds by then.
C4_MissForwardsOwnValue ==
  \A r \in Reqs :
    /\ pc[r] \in {"lock", "wvalue", "wtime", "forward"} =>
         FetchSucceeded(r) /\ val[r] = OwnDecoded(r).bytes
    /\ pc[r] = "wtime" => cache.value = OwnDecoded(r).bytes
    /\ (pc[r] = "return" /\ FetchSucceeded(r)) =>
         /\ nexts[r] = 1
         /\ seen[r] = << config.ValuePrefix \o OwnDecoded(r).bytes >>
         /\ got[r].data[config.SecretKey] = EncA =>
              seen[r] = << config.ValuePrefix \o << 97 >> >>
         /\ config.ValuePrefix = << >> => seen[r] = << OwnDecoded(r).bytes >>

\* a request is forwarded with its own value after another one's set
\* replaced that value in the cache
C4_Witness ==
  \E r \in Reqs :
    /\ pc[r] = "return" /\ FetchSucceeded(r)
    /\ seen[r] = << << 66, 97 >> >>
    /\ cache.value # << 97 >> /\ cache.sets = 2

C6_TtlZeroNeverFound ==
  \A r \in Reqs : cache.ttl = 0 => ~found[r]

\* C7: with ttl > 0, a get that follows set(v), no other set having written
\* since, returns (v, true) while the clock is at most ttl past that set,
\* and ("", false) once it is further.
C7_SetThenGet ==
  \A r \in Callers :
    (cache.ttl > 0 /\ pc[r] \in {"hit", "fetch"} /\ obs[r].tBy # 0) =>
      IF obs[r].at - obs[r].setAt <= cache.ttl
        THEN found[r] /\ pc[r] = "hit" /\ val[r] = obs[r].arg
        ELSE ~found[r] /\ pc[r] = "fetch" /\ val[r] = << >>

\* a get within ttl of the second of two sets
C7_Witness ==
  \E r \in Callers :
    /\ pc[r] = "hit" /\ cache.ttl > 0
    /\ obs[r].tBy = 2 /\ obs[r].setAt > 0 /\ val[r] = obs[r].arg

\* C8: the value and the lastFetch a get reads were written by one and the
\* same set, whose argument the value is.
C8_NoTornRead ==
  \A r \in Callers :
    pc[r] = "hit" =>
      /\ obs[r].tBy # 0
      /\ obs[r].vBy = obs[r].tBy
      /\ val[r] = obs[r].arg

\* a get has returned the pair of the first set while the second set is
\* in its critical section
C8_Witness ==
  \E r, w \in Callers :
    /\ pc[r] = "hit" /\ obs[r].tBy = 1 /\ obs[r].vBy = 1
    /\ pc[w] = "wtime" /\ setNo[w] = 2 /\ cache.value # val[r]

\* C9: while a set is in its critical section, no other set and no get is
\* in its critical section; the lock's holders are those in the sections.
InSet(r) == pc[r] \in {"wvalue", "wtime"}
InGet(r) == pc[r] \in {"check", "read"}

C9_WriterExcludes ==
  /\ \A w \in Callers :
       InSet(w) => \A o \in Callers \ {w} : ~InSet(o) /\ ~InGet(o)
  /\ \A r \in Callers : (InSet(r) <=> mu.w = r) /\ (InGet(r) <=> r \in mu.readers)

\* two gets are in their critical sections at once
C9_Witness ==
  \E a, b \in Callers : a # b /\ InGet(a) /\ InGet(b) /\ cache.sets > 0

\* C10: next is invoked once for a request that succeeds and not at all for
\* one that does not, and when invoked it finds the header set.
C10_NextOncePerSuccess ==
  \A r \in Reqs :
    /\ nexts[r] <= 1
    /\ pc[r] \notin {"return", "done"} => nexts[r] = 0
    /\ pc[r] = "return" =>
         /\ nexts[r] = 1 <=> (found[r] \/ FetchSucceeded(r))
         /\ nexts[r] = 0 <=> status[r] = 500
    /\ pc[r] = "done" => (nexts[r] = 1 <=> status[r] = 200)
                         /\ (nexts[r] = 0 <=> status[r] = 500)
    /\ nexts[r] = 1 =>
         /\ Len(seen[r]) = 1
         /\ pc[r] = "return" => seen[r] = << config.ValuePrefix \o val[r] >>

\* one request was forwarded and another was rejected
C10_Witness ==
  \E a, b \in Reqs :
    /\ pc[a] = "done" /\ nexts[a] = 1 /\ status[a] = 200
    /\ pc[b] = "done" /\ nexts[b] = 0 /\ status[b] = 500

\* The remote calls counted in c for the requests of rs.
RECURSIVE CallsOf(_, _)
CallsOf(c, rs) ==
  IF rs = {} THEN 0
  ELSE LET r == CHOOSE x \in rs : TRUE IN c[r] + CallsOf(c, rs \ {r})

\* The requests that have observed a miss (get returned not-found to them)
\* where the requests stand at p and have issued the calls c.
Missed(p, c) == { r \in Reqs : p[r] = "fetch" \/ c[r] > 0 }

\* C11: a request issues at most one remote call; a call is issued only by
\* a request standing right after a get that returned not-found (its read of
\* lastFetch and of the clock showed the entry expired), never again after
\* a failure; so the calls issued in total never exceed the requests that
\* observed a miss.
C11_OneFetchPerMiss ==
  [][ /\ \A r \in Reqs :
           /\ calls'[r] <= 1
           /\ calls'[r] # calls[r] =>
                /\ calls'[r] = calls[r] + 1
                /\ pc[r] = "fetch" /\ ~found[r]
                /\ Expired(obs[r].t, cache.ttl, obs[r].at)
      /\ CallsOf(calls', Reqs) <= Cardinality(Missed(pc', calls')) ]_vars

\* a request was rejected after its one remote call failed, another one has
\* issued its own
C11_Witness ==
  \E a, b \in Reqs :
    /\ a # b
    /\ pc[a] = "done" /\ status[a] = 500 /\ calls[a] = 1
    /\ pc[b] = "inflight" /\ calls[b] = 1

\* The header value the secret makes before its rotation.
HeaderBeforeRotation ==
  << HeaderValue(config.ValuePrefix,
                 DecodeString(BeforeRotation.data[config.SecretKey]).bytes) >>

\* C12: requests that do not overlap, against a secret that does not change
\* and that every fetch returns, with ttl > 0: after the first request's set
\* (the one write of the cache), a request whose get reads the clock within
\* ttl of that write does not miss; while the clock is within ttl of the
\* write there has been exactly one remote call in total, and every request
\* forwarded so far carried the one same header value.
C12_OneFetchWithinTtl ==
  ( /\ cache.ttl > 0
    /\ store = BeforeRotation
    /\ cache.sets = 1 /\ cache.tBy = 1
    /\ \A r \in Reqs : status[r] # 500 )
  => /\ \A r \in Reqs : pc[r] = "fetch" => obs[r].at - cache.at > cache.ttl
     /\ now - cache.at <= cache.ttl =>
          /\ CallsOf(calls, Reqs) = 1
          /\ \A r \in Reqs : nexts[r] = 1 => seen[r] = HeaderBeforeRotation

\* the earlier requests have been forwarded after one remote call, and the
\* last request's get, reading the clock at the very end of the ttl of the
\* first request's write, has found the value
C12_Witness ==
  /\ cache.ttl > 0 /\ store = BeforeRotation /\ cache.sets = 1
  /\ CallsOf(calls, Reqs) = 1
  /\ \E r \in Reqs :
       /\ pc[r] = "hit" /\ found[r]
       /\ obs[r].at - cache.at = cache.ttl
       /\ \A o \in Reqs \ {r} : pc[o] = "done" /\ nexts[o] = 1

\* C13: with ttl = 0, every one of a series of requests that do not overlap
\* makes its own remote call: a request that ServeHTTP has answered has
\* issued one.
C13_TtlZeroFetchesEveryTime ==
  cache.ttl = 0 =>
    \A r \in Reqs : pc[r] \in {"return", "done"} => calls[r] = 1

\* The requests whose remote call is in flight.
InFlight == { r \in Reqs : pc[r] = "inflight" }

\* C14: fetches are not coalesced.  A request that observed a miss can issue
\* its remote call whatever the other requests are doing, in particular
\* while their calls are in flight; the requests whose calls are in flight
\* have issued one call each, so N of them account for N calls, not more.
C14_NoSingleFlight ==
  /\ \A r \in Reqs : pc[r] = "fetch" => ENABLED GetSecretSend(r)
  /\ \A r \in InFlight : calls[r] = 1
  /\ CallsOf(calls, InFlight) = Cardinality(InFlight)

\* every request has observed the miss and all their calls are in flight
C14_Witness ==
  /\ InFlight = Reqs
  /\ CallsOf(calls, Reqs) = NumReqs

\* C15: when the context of the incoming request is cancelled or reaches
\* its deadline before the fetch has completed, the fetch ends with an
\* error: in the step in which httpClient.Do returns to such a request the
\* cache is left as it was, and the request is answered 500 with next not
\* invoked and goes on to return without calling set.
C15_CancelledFetchRejects ==
  [][ \A r \in Reqs :
        got'[r].ctx =>
          /\ got'[r].doErr = "canceled"
          /\ cause'[r] = "execute"
          /\ status'[r] = 500 /\ nexts'[r] = 0
          /\ pc'[r] = "return" /\ setNo'[r] = 0
          /\ got[r].ctx \/ cache' = cache ]_vars

\* a request whose context was cancelled during its fetch has been rejected
\* while the store held a secret that a fetch would have returned
C15_Witness ==
  \E r \in Reqs :
    /\ pc[r] = "return" /\ got[r].ctx
    /\ status[r] = 500 /\ calls[r] = 1
    /\ store = BeforeRotation

\* C16: New returns an error and no handler when secretName, secretKey or
\* headerName is empty, and it does so before it touches the credentials:
\* with such a configuration New never gets past its checks, no file is
\* read, no client built and no request served; so a request is only ever
\* handled with the three fields non-empty.
C16_RequiredFieldsChecked ==
  /\ ( raw.SecretName = "" \/ raw.SecretKey = "" \/ raw.HeaderName = "" ) =>
       /\ npc \in {"validate", "failed"}
       /\ reads = [token |-> 0, ca |-> 0]
       /\ client = NoClient
       /\ \A r \in Reqs : pc[r] = "idle"
  /\ \A r \in Reqs :
       pc[r] # "idle" =>
         config.SecretName # "" /\ config.SecretKey # ""
           /\ config.HeaderName # ""

\* New has returned its error in a pod that is in order, for a configuration
\* in which headerName alone is empty
C16_Witness ==
  /\ npc = "failed"
  /\ raw.SecretName # "" /\ raw.SecretKey # "" /\ raw.HeaderName = ""
  /\ env = PodEnv
  /\ reads = [token |-> 0, ca |-> 0]

\* The pod lacks something newK8sClient needs.
EnvBad ==
  \/ env.token = NoFile
  \/ env.ca # "pem"
  \/ env.host = "" \/ env.port = ""

\* C17: in a pod whose token file or CA bundle cannot be read, whose bundle
\* is not PEM, or whose API server host or port is empty, New never gets
\* past the credential setup: no handler, no request served.  The token
\* file and the CA bundle are read during construction only, once each: a
\* handler that is serving has the token and the address read then and
\* sends that token with every fetch.
C17_CredentialsAtConstruction ==
  /\ EnvBad =>
       /\ npc \notin {"build", "ok"}
       /\ \A r \in Reqs : pc[r] = "idle"
  /\ reads.token <= 1 /\ reads.ca <= 1
  /\ npc = "ok" =>
       /\ reads = [token |-> 1, ca |-> 1]
       /\ client = [baseURL |-> BaseURL(env.host, env.port),
                    token |-> env.token]
  /\ \A r \in Reqs :
       calls[r] > 0 => sent[r].Authorization = << "Bearer ", env.token >>

\* New has returned its error for a valid configuration in a pod where only
\* the port of the API server is missing, after reading both files
C17_Witness ==
  /\ npc = "failed"
  /\ ~ConfigInvalid(raw)
  /\ env = [PodEnv EXCEPT !.port = ""]
  /\ reads = [token |-> 1, ca |-> 1]

\* C18: whatever made a request fail (the fetch, the status, the body, the
\* missing key, the decoding), the caller gets the same response: status
\* 500 with the one fixed body.  Two requests that were rejected, for the
\* same cause or not, have responses that cannot be told apart.
C18_UniformRejection ==
  /\ \A r \in Reqs :
       cause[r] # "" =>
         status[r] = 500 /\ body[r] = "Internal Server Error"
  /\ \A a, b \in Reqs :
       status[a] = 500 /\ status[b] = 500 => body[a] = body[b]

\* two requests have been rejected for different causes
C18_Witness ==
  \E a, b \in Reqs :
    /\ pc[a] = "return" /\ pc[b] = "return"
    /\ cause[a] = "nokey" /\ cause[b] = "execute"
    /\ status[a] = 500 /\ status[b] = 500

\* C19: once the secret has been rotated at clock T, a request that begins
\* later than T + ttl is not forwarded with the value from before the
\* rotation, however the requests interleave.
C19_NoStaleAfterTtl ==
  \A r \in Reqs :
    late[r] /\ nexts[r] = 1 => seen[r] # HeaderBeforeRotation

\* C20: a handler built from a configuration without a namespace has the
\* namespace "default" and asks for the secret in "default" with every
\* fetch (a configured namespace is kept); the configuration CreateConfig
\* returns has CacheTTL 300, and a handler built with that TTL not
\* overridden has a cache ttl of 300 seconds.
C20_Defaults ==
  /\ CreateConfig.CacheTTL = 300
  /\ npc = "ok" =>
       /\ raw.Namespace = "" => config.Namespace = "default"
       /\ raw.Namespace # "" => config.Namespace = raw.Namespace
       /\ raw.CacheTTL = CreateConfig.CacheTTL => cache.ttl = 300
  /\ \A r \in Reqs :
       calls[r] > 0 /\ raw.Namespace = "" =>
         sent[r].url = << "https://", env.host, ":", env.port,
                          "/api/v1/namespaces/", "default", "/secrets/",
                          raw.SecretName >>

\* the handler built from CreateConfig's configuration with only the three
\* names filled in has issued a fetch
C20_Witness ==
  /\ npc = "ok"
  /\ raw.Namespace = "" /\ raw.CacheTTL = CreateConfig.CacheTTL
  /\ \E r \in Reqs : calls[r] = 1 /\ pc[r] = "inflight"

\* C21: the handler New returns has a cache whose ttl is not negative.
C21_TtlNonNegative == npc = "ok" => cache.ttl >= 0

\* C22: a request that fetches issues one GET, to
\* <base>/api/v1/namespaces/<namespace>/secrets/<name> with the base made of
\* the pod's API server host and port, the namespace and the secret name of
\* the configuration, with Authorization: Bearer <the token read from the
\* token file at construction> and Accept: application/json; a request that
\* has not fetched has issued nothing.
C22_FetchRequest ==
  \A r \in Reqs :
    /\ calls[r] <= 1
    /\ calls[r] = 0 => sent[r] = NoRequest
    /\ calls[r] = 1 =>
         /\ sent[r].method = "GET"
         /\ sent[r].url = << "https://", env.host, ":", env.port,
                             "/api/v1/namespaces/", config.Namespace,
                             "/secrets/", config.SecretName >>
         /\ sent[r].Authorization = << "Bearer ", env.token >>
         /\ sent[r].Accept = "application/json"

\* the handler built for the namespace "prod" has a fetch in flight
C22_Witness ==
  /\ npc = "ok" /\ raw.Namespace = "prod"
  /\ \E r \in Reqs :
       /\ pc[r] = "inflight" /\ calls[r] = 1
       /\ sent[r].url[6] = "prod" /\ sent[r].url[8] = "my-secret"

\* Base64 texts a secret field can hold: three that decode, two that do not
\* (padding cut short, a single character).
SecretTexts == { EncA, EncBC, << >>, EncBad, << "Y" >> }

\* The mappings that differ from data in the values of its fields only,
\* every field staying decodable or not as it is in data.
Revalued(data) ==
  { d \in [DOMAIN data -> SecretTexts] :
      \A k \in DOMAIN data : DecodeString(d[k]).err = DecodeString(data[k]).err }

\* C23: what a request writes to the log does not depend on the values of
\* the secret: had the answer to its fetch carried other values in the
\* secret's fields (the fetch ending the same way), the request would have
\* logged the same.
C23_LogsIndependentOfSecret ==
  \A r \in Reqs :
    pc[r] = "return" /\ got[r] # NoAnswer =>
      \A d \in Revalued(got[r].data) :
        LET alt == [got[r] EXCEPT !.data = d]
        IN  LogLine(config, alt, FetchOutcome(alt, config.SecretKey).cause)
              = logged[r]

\* The fetch of request r came back with the secret and the configured key
\* in it, holding text that is not base64.
FetchedBadBase64(r) ==
  /\ got[r].doErr = "" /\ got[r].status = 200 /\ got[r].json
  /\ config.SecretKey \in DOMAIN got[r].data
  /\ OwnDecoded(r).err

\* C24: a request that missed and whose fetch returned the configured key
\* with a value that is not valid base64 is answered 500 with the generic
\* body; next is not invoked for it, the header is not set on the request
\* and nothing is forwarded.
C24_BadBase64Rejects ==
  \A r \in Reqs :
    pc[r] \notin {"idle", "inflight", "done"} /\ FetchedBadBase64(r) =>
      /\ pc[r] = "return" /\ cause[r] = "base64"
      /\ status[r] = 500 /\ body[r] = "Internal Server Error"
      /\ nexts[r] = 0 /\ seen[r] = << >>
      /\ hdr[r] = ClientHeader(r)

\* a request has been rejected for a value with its padding cut short
C24_Witness ==
  \E r \in Reqs :
    /\ pc[r] = "return" /\ FetchedBadBase64(r)
    /\ got[r].data[config.SecretKey] = EncBad
    /\ status[r] = 500 /\ calls[r] = 1

\* The one failure the fetch path reports for an answer, by the order of its
\* checks: httpClient.Do failed; else the status is not 200; else the body
\* is not JSON; else the key is absent; else the value is not base64.
Classified(resp, key) ==
  IF resp.doErr # "" THEN "execute"
  ELSE IF resp.status # 200 THEN "status"
  ELSE IF ~resp.json THEN "body"
  ELSE IF key \notin DOMAIN resp.data THEN "nokey"
  ELSE IF DecodeString(resp.data[key]).err THEN "base64"
  ELSE ""

\* C25: a request that fails on the fetch path reports exactly one failure,
\* the first that applies in the order: remote status (logged with the
\* status and the body), undecodable body, key absent, invalid base64.  An
\* answer that lacks the key is reported as key absent only when status and
\* body were in order, and an answer in order but for the key is never
\* reported as a transport or status failure.
C25_FailureClassified ==
  \A r \in Reqs :
    pc[r] = "return" /\ got[r] # NoAnswer =>
      /\ cause[r] = Classified(got[r], config.SecretKey)
      /\ cause[r] = "status" =>
           logged[r][5] = got[r].status /\ logged[r][6] = got[r].data
      /\ ( got[r].doErr = "" /\ got[r].status = 200 /\ got[r].json
           /\ config.SecretKey \notin DOMAIN got[r].data ) =>
           cause[r] = "nokey" /\ logged[r][1] = "Secret key not found in secret"

\* a request was answered 404 with a body that has no data: the failure it
\* has reported is the status, not the absent key
C25_Witness ==
  \E r \in Reqs :
    /\ pc[r] = "return" /\ cause[r] = "status"
    /\ got[r].status = 404 /\ got[r].json
    /\ config.SecretKey \notin DOMAIN got[r].data

\* C26: a failure is not cached.  While no set has been called the cache is
\* as New left it and get reports a miss; after a request has failed, a
\* request that observes a miss can issue its own fetch, a request past its
\* fetch has a usable answer, and a request whose fetch succeeded is
\* forwarded as usual, with the value it fetched.
C26_FailureNotCached ==
  /\ cache.sets = 0 =>
       /\ cache.lastFetch = ZeroTime /\ cache.value = << >>
       /\ Expired(cache.lastFetch, cache.ttl, now)
  /\ \A a, b \in Reqs :
       a # b /\ pc[a] = "done" /\ status[a] = 500 =>
         /\ pc[b] = "fetch" => ENABLED GetSecretSend(b)
         /\ pc[b] \in {"lock", "wvalue", "wtime", "forward"} =>
              FetchSucceeded(b)
         /\ pc[b] = "return" /\ FetchSucceeded(b) =>
              /\ status[b] = 200 /\ nexts[b] = 1
              /\ seen[b] = << HeaderValue(config.ValuePrefix,
                                          OwnDecoded(b).bytes) >>

\* a request failed and returned; the request after it has missed, fetched
\* and been forwarded
C26_Witness ==
  \E a, b \in Reqs :
    /\ a # b
    /\ pc[a] = "done" /\ status[a] = 500 /\ calls[a] = 1
    /\ pc[b] = "return" /\ calls[b] = 1 /\ FetchSucceeded(b)
    /\ status[b] = 200 /\ nexts[b] = 1

\* C27: serving leaves the handler as New built it but for the cache entry.
\* No step of a request changes the cache's ttl (it stays CacheTTL seconds),
\* the configuration or the client's address and token; value and lastFetch
\* change only in a step of set; the steps of get (RLock, the test, the
\* read) leave the whole cache as it is.
C27_Frame ==
  [][ /\ cache'.ttl = cache.ttl /\ cache'.ttl = config.CacheTTL
      /\ config' = config /\ client' = client
      /\ ( cache'.value # cache.value \/ cache'.lastFetch # cache.lastFetch ) =>
           \E r \in Reqs : pc[r] \in {"wvalue", "wtime"} /\ pc'[r] # pc[r]
      /\ \A r \in Reqs :
           pc[r] \in {"idle", "check", "read"} /\ pc'[r] # pc[r] =>
             cache' = cache ]_vars

\* a get has returned found from an entry that a set wrote, and the entry
\* is as that set left it
C27_Witness ==
  \E r \in Reqs :
    /\ pc[r] = "hit" /\ found[r]
    /\ cache.sets >= 1 /\ cache.tBy = cache.sets
    /\ cache.lastFetch = cache.at /\ cache.value = val[r]
    /\ cache.ttl = config.CacheTTL

\* C28: under fair scheduling, with every remote call ending, a request
\* that has entered ServeHTTP comes to its end, forwarded (200 from next) or
\* rejected (500); a writer that holds the cache lock releases it and a
\* reader that holds it releases it, so that no request waits for the lock
\* for ever.
C28_EveryRequestCompletes ==
  /\ \A r \in Reqs :
       (pc[r] # "idle") ~> (pc[r] = "done" /\ status[r] \in {200, 500})
  /\ \A r \in Reqs : (mu.w = r) ~> (mu.w # r)
  /\ \A r \in Reqs : (r \in mu.readers) ~> (r \notin mu.readers)

\* every request has completed, one of them forwarded after its own fetch
\* and set, one rejected
C28_Witness ==
  /\ \A r \in Reqs : pc[r] = "done"
  /\ \E a, b \in Reqs :
       /\ status[a] = 200 /\ calls[a] = 1 /\ nexts[a] = 1
       /\ status[b] = 500 /\ nexts[b] = 0
  /\ cache.sets >= 1 /\ mu = [w |-> NoReq, readers |-> {}]

\* The requests that are inside get (holding the read lock) or inside set
\* (holding the write lock).
InGetOrSet == { r \in Reqs : pc[r] \in {"check", "read", "wvalue", "wtime"} }

\* C29: a request holds the cache lock only inside get or set: the read
\* lock from RLock to the return of get, the write lock from Lock to the
\* return of set, and neither before its fetch is sent, while the fetch is
\* in flight, while it waits for the write lock or when next is invoked.
\* When no request is inside get or set the lock is free, whatever fetches
\* are in flight, so that a get or a set of another request can go ahead.
C29_LockOnlyInGetSet ==
  /\ \A r \in Reqs :
       /\ r \in mu.readers <=> pc[r] \in {"check", "read"}
       /\ mu.w = r <=> pc[r] \in {"wvalue", "wtime"}
  /\ InGetOrSet = {} => CanRLock /\ CanLock

\* one request's fetch is in flight while another request is inside set,
\* holding the write lock
C29_Witness ==
  \E a, b \in Reqs :
    /\ pc[a] = "inflight"
    /\ pc[b] = "wtime" /\ mu.w = b

\* C30: while no set has stamped the cache, whatever the ttl New was given,
\* get reports not-found: no request is past get's test with found, a
\* request that ServeHTTP has answered went to the API server, and no
\* request is forwarded before a set was called, so that the empty value
\* New left in the cache is never made a header.
C30_UnwrittenCacheMisses ==
  /\ cache.tBy = 0 =>
       /\ cache.lastFetch = ZeroTime
       /\ \A r \in Reqs :
            /\ ~found[r] /\ pc[r] \notin {"read", "hit"}
            /\ pc[r] \in {"return", "done"} => calls[r] = 1
  /\ \A r \in Reqs : nexts[r] = 1 => cache.sets >= 1

\* the handler built with the TTL of 300 s: its first request's get has
\* read the zero lastFetch and reported not-found
C30_Witness ==
  /\ npc = "ok" /\ cache.ttl = 300 /\ cache.sets = 0
  /\ \E r \in Reqs :
       pc[r] = "fetch" /\ ~found[r] /\ obs[r].t = ZeroTime

\* C31: the step in which a request fails on the fetch path (httpClient.Do
\* failed or was cancelled, status not 200, body not JSON, key missing,
\* value not base64) leaves the whole cache, value and lastFetch included,
\* as it was, and the request is in no call of set; the cache is written
\* only by a request whose fetch, key lookup and decoding all succeeded,
\* with the value it decoded.
C31_FailureLeavesCache ==
  [][ /\ \A r \in Reqs :
           pc[r] = "inflight" /\ pc'[r] = "return" =>
             /\ cause'[r] \in {"execute", "status", "body", "nokey", "base64"}
             /\ cache' = cache
             /\ setNo'[r] = 0
      /\ cache' # cache =>
           \E r \in Reqs :
             /\ pc[r] \in {"lock", "wvalue", "wtime"} /\ pc'[r] # pc[r]
             /\ cause[r] = "" /\ FetchSucceeded(r)
             /\ val[r] = OwnDecoded(r).bytes
             /\ cache'.value \in {cache.value, OwnDecoded(r).bytes} ]_vars

\* a request has failed on the fetch path after another request's set, and
\* the cache still holds what that set wrote
C31_Witness ==
  \E a, b \in Reqs :
    /\ a # b
    /\ pc[a] = "done" /\ status[a] = 200 /\ calls[a] = 1
    /\ pc[b] = "return" /\ cause[b] # "" /\ calls[b] = 1 /\ status[b] = 500
    /\ cache.sets = 1 /\ cache.tBy = 1
    /\ cache.value = << 97 >> /\ cache.lastFetch = cache.at
    /\ cache.lastFetch # ZeroTime

\* C32: the cache is last-writer-wins by the order of set.  The set that
\* completes leaves its own argument as the value and the clock as
\* lastFetch, whatever the store holds by then and whatever was cached; and
\* whenever no set is under way, the cached value is the argument of the
\* most recent call of set.
C32_LastSetWins ==
  [][ /\ \A r \in Reqs :
           pc[r] = "wtime" /\ pc'[r] = "forward" =>
             /\ cache'.value = val[r] /\ val[r] = OwnDecoded(r).bytes
             /\ cache'.lastFetch = now
             /\ cache'.tBy = cache.sets
      /\ (mu'.w = NoReq /\ cache'.sets >= 1) =>
           /\ cache'.value = cache'.arg
           /\ cache'.vBy = cache'.sets /\ cache'.tBy = cache'.sets ]_vars

\* request a fetched before the rotation, request b after it; b's set ran
\* first and a's set, later on the clock, has put the older value back with
\* a fresh lastFetch
C32_Witness ==
  \E a, b \in Reqs :
    /\ a # b /\ store = AfterRotation
    /\ pc[a] = "forward" /\ got[a].data = BeforeRotation.data
    /\ pc[b] \in {"forward", "return"} /\ got[b].data = AfterRotation.data
    /\ val[b] = << >> /\ val[a] = << 97 >>
    /\ cache.sets = 2 /\ cache.value = << 97 >>
    /\ now >= 1 /\ cache.lastFetch = now

\* C33: a request that is forwarded reaches next with exactly one value of
\* HeaderName, ValuePrefix + the secret value ServeHTTP holds for it; no
\* value the client sent for that header is kept or added to; a request
\* that is rejected is not forwarded, next sees nothing of it.
C33_HeaderReplaced ==
  \A r \in Reqs :
    /\ nexts[r] <= 1
    /\ nexts[r] = 1 =>
         /\ Len(seen[r]) = 1 /\ hdr[r] = seen[r]
         /\ pc[r] = "return" =>
              seen[r] = << config.ValuePrefix \o val[r] >>
         /\ \A i \in 1..Len(seen[r]) : \A j \in 1..Len(ClientHeader(r)) :
              seen[r][i] # ClientHeader(r)[j]
    /\ status[r] = StatusInternalServerError =>
         nexts[r] = 0 /\ seen[r] = << >>

\* the request whose client sent a value of its own has been forwarded on a
\* cache hit with the prefixed secret as the only value, after the other
\* request fetched it
C33_Witness ==
  \E r, o \in Reqs :
    /\ ClientHeader(r) # << >> /\ o # r
    /\ pc[r] = "return" /\ found[r] /\ nexts[r] = 1
    /\ config.ValuePrefix = << 66 >>
    /\ seen[r] = << << 66, 97 >> >>
    /\ pc[o] = "done" /\ status[o] = 200

\* C34: getSecret takes an answer whose status is not exactly 200 as a
\* failure, a 2xx status other than 200 included: it returns an error and
\* no secret, whatever the body holds, and ServeHTTP rejects the request
\* with 500 without calling set or next.
C34_Only200Succeeds ==
  /\ \A resp \in Answers(store) :
       resp.doErr = "" /\ resp.status # StatusOK =>
         getSecret(resp) = [err |-> "status", data |-> NoData]
  /\ \A r \in Reqs :
       got[r].doErr = "" /\ got[r].status # StatusOK =>
         /\ pc[r] = "return" /\ cause[r] = "status"
         /\ status[r] = StatusInternalServerError
         /\ nexts[r] = 0 /\ setNo[r] = 0

\* an answer with status 201 and a body holding the secret with the
\* configured key in valid base64 has been rejected
C34_Witness ==
  \E r \in Reqs :
    /\ pc[r] = "return" /\ got[r].status = StatusCreated /\ got[r].json
    /\ config.SecretKey \in DOMAIN got[r].data
    /\ ~OwnDecoded(r).err
    /\ status[r] = StatusInternalServerError /\ nexts[r] = 0
    /\ cache.sets = 0

\* The answer with every field of the secret but the given one left out.
OnlyField(resp, key) ==
  [resp EXCEPT !.data = [k \in DOMAIN resp.data \cap {key} |-> resp.data[k]]]

\* C35: only the field of SecretKey is decoded.  What the fetch path makes
\* of an answer does not depend on the other fields of the secret; a
\* request whose answer holds SecretKey in valid base64 is forwarded with
\* that value, whatever the other fields hold; an answer with status 200
\* and no data mapping is a missing key: the request is rejected with 500,
\* nothing is cached and the handler goes on.
C35_OnlyConfiguredKeyDecoded ==
  /\ \A resp \in Answers(store) :
       FetchOutcome(resp, config.SecretKey) =
         FetchOutcome(OnlyField(resp, config.SecretKey), config.SecretKey)
  /\ \A r \in Reqs :
       got[r].doErr = "" /\ got[r].status = StatusOK /\ got[r].json =>
         /\ ( config.SecretKey \in DOMAIN got[r].data /\ ~OwnDecoded(r).err ) =>
              /\ pc[r] \in {"lock", "wvalue", "wtime", "forward", "return"}
              /\ cause[r] = "" /\ val[r] = OwnDecoded(r).bytes
              /\ pc[r] = "return" =>
                   /\ status[r] = StatusOK /\ nexts[r] = 1
                   /\ seen[r] = << config.ValuePrefix \o OwnDecoded(r).bytes >>
         /\ DOMAIN got[r].data = {} =>
              /\ pc[r] = "return" /\ cause[r] = "nokey"
              /\ status[r] = StatusInternalServerError /\ nexts[r] = 0
              /\ setNo[r] = 0

\* a request has been forwarded with the decoded value of SecretKey from a
\* secret whose other field is not base64
C35_Witness ==
  \E r \in Reqs :
    /\ pc[r] = "return" /\ status[r] = StatusOK /\ nexts[r] = 1
    /\ got[r].status = StatusOK /\ calls[r] = 1
    /\ \E k \in DOMAIN got[r].data :
         k # config.SecretKey /\ DecodeString(got[r].data[k]).err
    /\ seen[r] = << config.ValuePrefix \o << 97 >> >>

\* C36: an empty secret value is cached like any other.  Whether get
\* reports found is decided by lastFetch, ttl and the clock alone, also when
\* the value a set stored is empty; a request that get handed the empty
\* value as found makes no remote call and is forwarded with the header
\* equal to ValuePrefix alone.
C36_EmptyValueCached ==
  \A r \in Reqs :
    /\ pc[r] \in {"fetch", "read", "hit"} =>
         ( found[r] <=> ~Expired(obs[r].t, cache.ttl, obs[r].at) )
    /\ ( pc[r] \in {"fetch", "read", "hit"} /\ obs[r].tBy >= 1
         /\ obs[r].arg = << >> /\ obs[r].at - obs[r].t <= cache.ttl ) =>
           found[r] /\ pc[r] # "fetch"
    /\ ( pc[r] \in {"hit", "return"} /\ found[r] /\ val[r] = << >> ) =>
         /\ calls[r] = 0
         /\ pc[r] = "return" =>
              /\ status[r] = StatusOK /\ nexts[r] = 1
              /\ seen[r] = << config.ValuePrefix >>

\* one request fetched the empty value and cached it; the next request was
\* a cache hit and has been forwarded with the prefix alone
C36_Witness ==
  \E a, b \in Reqs :
    /\ a # b /\ config.ValuePrefix = << 66 >>
    /\ pc[a] = "done" /\ calls[a] = 1 /\ status[a] = StatusOK
    /\ pc[b] = "return" /\ found[b] /\ calls[b] = 0 /\ val[b] = << >>
    /\ cache.sets = 1 /\ cache.value = << >> /\ cache.arg = << >>
    /\ nexts[b] = 1 /\ seen[b] = << << 66 >> >>

\* C37: lastFetch never decreases.  With a clock that does not go back, no
\* step lowers lastFetch, whatever the interleaving of the calls of set and
\* get; lastFetch changes only in the step of set that assigns it, to the
\* clock's reading at that step, and is never ahead of the clock.
C37_LastFetchMonotone ==
  [][ /\ now' >= now
      /\ cache'.lastFetch >= cache.lastFetch
      /\ cache'.lastFetch <= now'
      /\ cache'.lastFetch # cache.lastFetch =>
           \E r \in Callers :
             /\ pc[r] = "wtime" /\ pc'[r] = "forward"
             /\ cache'.lastFetch = now ]_vars

\* a get read the lastFetch of the first set; the second set, later on the
\* clock, has stored a greater one
C37_Witness ==
  \E r \in Callers :
    /\ pc[r] \in {"hit", "fetch"} /\ obs[r].tBy = 1 /\ obs[r].t >= 0
    /\ cache.sets = 2 /\ cache.tBy = 2
    /\ cache.lastFetch > obs[r].t

====
